---- MODULE Spec2Model ----
(***************************************************************************)
(* Model of the statistics functions of src/utils.py                       *)
(* (calculate_band_wavelength, calculate_parcels_per_band,                 *)
(* calculate_band_coverage, get_gyrification_index) as state machines      *)
(* whose initial states draw the arguments from bounded sets and whose     *)
(* actions run the functions, and of a run of main (src/main.py) over a    *)
(* listing of mesh files, each handed to process_single_file               *)
(* (src/spangy_analysis.py).  What the libraries (slam, trimesh) read and  *)
(* derive for a mesh file is an input: a value or a raised exception.      *)
(*                                                                         *)
(* Numbers.  Python/numpy floats are modelled exactly, without rounding:   *)
(* a number is a triple <<p, q, d>> standing for (p + q*sqrt(2)) / d with  *)
(* d > 0 and gcd(p, q, d) = 1.  d = 0 encodes the two non-finite values    *)
(* numpy produces on a division by zero: NaN = <<0,0,0>> (0/0) and         *)
(* Inf = <<1,0,0>> (x/0, x # 0).  Eigenvalues are held in units of pi, so  *)
(* that eigVal / (2*pi) is the rational e/2.                               *)
(***************************************************************************)
EXTENDS Integers, Sequences, FiniteSets, TLC

\* ------------------------------------------------------------------ bounds
MaxN == 4          \* vertices of a mesh given to calculate_band_coverage
MaxFaces == 2      \* faces of a mesh
MaxParcelN == 6    \* vertices of a mesh given to calculate_parcels_per_band
MaxBand == 2       \* highest band index; the decomposition returns MaxBand+1 bands
MaxK == 3          \* eigenvalues of a spectrum
MaxGroups == 3     \* index groups (bands) of a spectrum

VARIABLES
    pc,                \* position of the running function
    vertices,          \* mesh.vertices: sequence of 3-D points
    faces,             \* mesh.faces: sequence of triples of 0-based vertex indices
    loc_dom_band,      \* per-vertex dominant-band label array
    parcels_per_band,  \* result list of calculate_parcels_per_band
    coverage,          \* results of the calculate_band_coverage calls made so far
    eigVal,            \* eigenvalues, in units of pi
    group_indices,     \* per band, the sequence of 0-based eigenvalue indices
    band_wavelengths,  \* result list of calculate_band_wavelength
    div_by_zero,       \* TRUE once a division by zero has been executed
    hull,              \* what trimesh's convex hull gives get_hull_area
    gyrification,      \* outcome of get_gyrification_index
    all_files,         \* main: the listed mesh files, in listing order
    returned,          \* main: what process_single_file gave for each file so far
    results,           \* main: the list "results"
    csv,               \* main: the table written by to_csv
    disk,              \* the mesh files of surface_path and what is derived from each
    environ,           \* os.environ: the SLURM array variables
    chunks,            \* array job: what each task that has run took from all_files
    dirs,              \* the directories that exist
    calls              \* the running calls of ensure_dir_exists, one per process

\* the variables of get_gyrification_index and of main
fileVars == <<hull, gyrification, all_files, returned, results, csv, disk, environ>>

\* the variables of an array job and of ensure_dir_exists
jobVars == <<chunks, dirs, calls>>

vars == <<pc, vertices, faces, loc_dom_band, parcels_per_band, coverage,
          eigVal, group_indices, band_wavelengths, div_by_zero, fileVars, jobVars>>

\* ----------------------------------------------------------------- numbers
Abs(x) == IF x < 0 THEN -x ELSE x

RECURSIVE GCD(_, _)
GCD(a, b) == IF b = 0 THEN a ELSE GCD(b, a % b)

NaN == <<0, 0, 0>>
Inf == <<1, 0, 0>>

IsFinite(x) == x[3] # 0

\* (p + q*sqrt(2)) / d in normal form
Num(p, q, d) ==
    IF d = 0 THEN (IF p = 0 /\ q = 0 THEN NaN ELSE Inf)
    ELSE LET g == GCD(GCD(Abs(p), Abs(q)), Abs(d))
             s == IF d < 0 THEN -1 ELSE 1
         IN <<(s * p) \div g, (s * q) \div g, (s * d) \div g>>

Flt(n) == Num(n, 0, 1)

Zero == Flt(0)

Add(x, y) == Num(x[1] * y[3] + y[1] * x[3], x[2] * y[3] + y[2] * x[3], x[3] * y[3])

Mul(x, y) == Num(x[1] * y[1] + 2 * x[2] * y[2], x[1] * y[2] + x[2] * y[1], x[3] * y[3])

\* x > 0 as numpy evaluates it: False for NaN
IsPositive(x) ==
    /\ IsFinite(x)
    /\ \/ x[1] >= 0 /\ x[2] >= 0 /\ x[1] + x[2] > 0
       \/ x[1] > 0 /\ x[2] < 0 /\ x[1] * x[1] > 2 * x[2] * x[2]
       \/ x[1] < 0 /\ x[2] > 0 /\ 2 * x[2] * x[2] > x[1] * x[1]

\* x / y as numpy evaluates it: 0/0 is NaN and x/0 is Inf (a warning, no exception)
Div(x, y) ==
    IF ~IsFinite(x) \/ ~IsFinite(y) THEN NaN
    ELSE IF y = Zero THEN (IF x = Zero THEN NaN ELSE Inf)
    ELSE Mul(x, Num(y[3] * y[1], -(y[3] * y[2]), y[1] * y[1] - 2 * y[2] * y[2]))

\* np.sqrt of a non-negative rational whose root is m/d or m*sqrt(2)/d
Sqrt(x) ==
    IF ~IsFinite(x) \/ x[1] < 0 THEN NaN
    ELSE LET n == x[1] * x[3]
             m == CHOOSE r \in 0..n : r * r = n \/ 2 * r * r = n
         IN IF m * m = n THEN Num(m, 0, x[3]) ELSE Num(0, m, x[3])

RECURSIVE SumSeq(_)
SumSeq(s) == IF s = <<>> THEN Zero ELSE Add(Head(s), SumSeq(Tail(s)))

\* ------------------------------------------------------------ geometry
Sub3(a, b) == <<a[1] - b[1], a[2] - b[2], a[3] - b[3]>>

Cross(u, w) == <<u[2] * w[3] - u[3] * w[2],
                 u[3] * w[1] - u[1] * w[3],
                 u[1] * w[2] - u[2] * w[1]>>

Norm(v) == Sqrt(Flt(v[1] * v[1] + v[2] * v[2] + v[3] * v[3]))

Half == Num(1, 0, 2)

\* area of one triangle as trimesh computes it for mesh.area
TrimeshFaceArea(vs, face) ==
    Mul(Half, Norm(Cross(Sub3(vs[face[2] + 1], vs[face[1] + 1]),
                         Sub3(vs[face[3] + 1], vs[face[1] + 1]))))

RECURSIVE SumAreas(_, _)
SumAreas(vs, fs) ==
    IF fs = <<>> THEN Zero
    ELSE Add(TrimeshFaceArea(vs, Head(fs)), SumAreas(vs, Tail(fs)))

\* mesh.area
MeshArea(vs, fs) == SumAreas(vs, fs)

\* ------------------------------------------- calculate_band_coverage
\* faulty variant of BandVertices, for mutation testing: >= where the code has ==
BandVerticesAtLeast(ldb, band_idx) == [v \in 1..Len(ldb) |-> ldb[v] >= band_idx]

\* band_vertices = loc_dom_band == band_idx
BandVertices(ldb, band_idx) == [v \in 1..Len(ldb) |-> ldb[v] = band_idx]

\* num_vertices = np.sum(band_vertices)
NumVertices(bv) == Cardinality({v \in DOMAIN bv : bv[v]})

\* faulty variant of VertexPercentage, for mutation testing: the fraction, not scaled to a percentage
VertexFraction(num_vertices, ldb) == Div(Flt(num_vertices), Flt(Len(ldb)))

\* vertex_percentage = (num_vertices / len(loc_dom_band)) * 100
VertexPercentage(num_vertices, ldb) ==
    Mul(Div(Flt(num_vertices), Flt(Len(ldb))), Flt(100))

\* faulty variant of FaceSelected, for mutation testing: all() where the code has any()
FaceSelectedAll(bv, face) == \A k \in 1..3 : bv[face[k] + 1]

\* any(band_vertices[face])
FaceSelected(bv, face) == \E k \in 1..3 : bv[face[k] + 1]

\* faulty variant of FaceArea, for mutation testing: the factor 0.5 left out
FaceAreaNoHalf(vs, face) ==
    Norm(Cross(Sub3(vs[face[2] + 1], vs[face[1] + 1]),
               Sub3(vs[face[3] + 1], vs[face[1] + 1])))

\* area = 0.5 * np.linalg.norm(np.cross(v2 - v1, v3 - v1))
FaceArea(vs, face) ==
    LET v1 == vs[face[1] + 1]
        v2 == vs[face[2] + 1]
        v3 == vs[face[3] + 1]
    IN Mul(Half, Norm(Cross(Sub3(v2, v1), Sub3(v3, v1))))

\* the loop over the faces, total_area starting at 0
RECURSIVE BandArea(_, _, _, _)
BandArea(vs, fs, bv, total_area) ==
    IF fs = <<>> THEN total_area
    ELSE BandArea(vs, Tail(fs), bv,
                  IF FaceSelected(bv, Head(fs))
                  THEN Add(total_area, FaceArea(vs, Head(fs)))
                  ELSE total_area)

\* area_percentage = (total_area / mesh.area) * 100
AreaPercentage(total_area, mesh_area) == Mul(Div(total_area, mesh_area), Flt(100))

calculate_band_coverage(vs, fs, ldb, band_idx) ==
    LET band_vertices == BandVertices(ldb, band_idx)
        num_vertices == NumVertices(band_vertices)
        total_area == BandArea(vs, fs, band_vertices, Zero)
    IN [band_idx |-> band_idx,
        num_vertices |-> num_vertices,
        vertex_percentage |-> VertexPercentage(num_vertices, ldb),
        total_area |-> total_area,
        area_percentage |-> AreaPercentage(total_area, MeshArea(vs, fs))]

\* ---------------------------------------- calculate_parcels_per_band
\* band_mask = (loc_dom_band == i).astype(int)
BandMask(ldb, i) == [v \in 1..Len(ldb) |-> IF ldb[v] = i THEN 1 ELSE 0]

\* np.sum(band_mask)
MaskSum(mask) == Cardinality({v \in DOMAIN mask : mask[v] = 1})

\* ndimage.label(band_mask) on a 1-D array with the default structure: a
\* feature is a maximal run of consecutive non-zero entries, in array order
NdimageLabelCount(mask) ==
    Cardinality({v \in DOMAIN mask : mask[v] # 0 /\ (v = 1 \/ mask[v - 1] = 0)})

\* one pass of the loop body, for band i
ParcelsOfBand(ldb, i) ==
    LET band_mask == BandMask(ldb, i)
    IN IF MaskSum(band_mask) = 0 THEN 0 ELSE NdimageLabelCount(band_mask)

\* for i in range(levels): the list holds band i at position i (1-based: i + 1)
calculate_parcels_per_band(ldb, lvls) == [k \in 1..lvls |-> ParcelsOfBand(ldb, k - 1)]

\* levels = len(group_indices): the decomposition returns bands 0..MaxBand
levels == MaxBand + 1

\* ----------------------------------------- calculate_band_wavelength
TwoPi == Flt(2)

\* band_frequencies = np.sqrt(eigVal[indices] / (2 * np.pi)); eigVal is in
\* units of pi, so the quotient is eigVal[i] / 2
BandFrequencies(ev, indices) ==
    [k \in 1..Len(indices) |-> Sqrt(Div(Flt(ev[indices[k] + 1]), TwoPi))]

\* faulty variant of Mean, for mutation testing: np.sum where the code has np.mean
MeanAsSum(xs) == SumSeq(xs)

\* np.mean(band_frequencies)
Mean(xs) == Div(SumSeq(xs), Flt(Len(xs)))

\* faulty variant of AvgWavelength, for mutation testing: the division without its guard
AvgWavelengthUnguarded(mean_frequency) ==
    [wavelength |-> Div(Flt(1), mean_frequency), by_zero |-> mean_frequency = Zero]

\* the guarded division: if np.mean(band_frequencies) > 0: 1 / mean, else 0;
\* by_zero records whether a division with divisor 0 was executed
AvgWavelength(mean_frequency) ==
    IF IsPositive(mean_frequency)
    THEN [wavelength |-> Div(Flt(1), mean_frequency), by_zero |-> mean_frequency = Zero]
    ELSE [wavelength |-> Zero, by_zero |-> FALSE]

\* one pass of the loop body, for one index group
BandWavelength(ev, indices) ==
    IF Len(indices) = 0 THEN [wavelength |-> Zero, by_zero |-> FALSE]
    ELSE AvgWavelength(Mean(BandFrequencies(ev, indices)))

\* ------------------------------------------------------------- inputs
SeqsUpTo(S, n) == UNION {[1..k -> S] : k \in 0..n}

\* a face: three distinct vertex indices in [0, N)
Triples(N) == {f \in (0..(N - 1)) \X (0..(N - 1)) \X (0..(N - 1)) :
                   f[1] < f[2] /\ f[2] < f[3]}

FaceBefore(f, g) ==
    \/ f[1] < g[1]
    \/ f[1] = g[1] /\ f[2] < g[2]
    \/ f[1] = g[1] /\ f[2] = g[2] /\ f[3] < g[3]

\* the face lists of a mesh of N vertices: at most n distinct faces, every
\* vertex belonging to some face
FaceLists(N, n) ==
    {fs \in SeqsUpTo(Triples(N), n) :
        /\ \A i \in 1..(Len(fs) - 1) : FaceBefore(fs[i], fs[i + 1])
        /\ \A v \in 0..(N - 1) : \E k \in 1..Len(fs), j \in 1..3 : fs[k][j] = v}

\* vertex positions of a mesh of N vertices: all on one line (every face has
\* area 0), on a parabola (every face has a different positive area), the
\* first three on a line and the rest on the parabola, and on a parabola in
\* the plane x + y = 0 (areas are multiples of sqrt(2))
VertexArrays(N) ==
    {[i \in 1..N |-> <<i - 1, 0, 0>>],
     [i \in 1..N |-> <<i - 1, (i - 1) * (i - 1), 0>>],
     [i \in 1..N |-> <<i - 1, IF i <= 3 THEN 0 ELSE (i - 1) * (i - 1), 0>>],
     [i \in 1..N |-> <<i - 1, 1 - i, (i - 1) * (i - 1)>>]}

\* labels of a dominant-band array: sulcal band 1, no dominant band, gyral band 1
CoverageLabels == {-1, 0, 1}

\* the bands coverage is asked for, in order; no vertex carries the last
CoverageBands == <<-1, 0, 1, 2>>

NoData == <<>>

\* the variables of an array job and of ensure_dir_exists, unused
JobVarsIdle ==
    /\ chunks = NoData
    /\ dirs = NoData
    /\ calls = NoData

\* the variables of get_gyrification_index and of main, unused
FileVarsIdle ==
    /\ hull = NoData
    /\ gyrification = NoData
    /\ all_files = NoData
    /\ returned = NoData
    /\ results = NoData
    /\ csv = NoData
    /\ disk = NoData
    /\ environ = NoData

\* ------------------------------------------ SpecCoverage: band coverage
InitCoverage ==
    /\ pc = "coverage"
    /\ \E N \in 1..MaxN :
         /\ vertices \in VertexArrays(N)
         /\ faces \in FaceLists(N, MaxFaces)
         /\ loc_dom_band \in [1..N -> CoverageLabels]
    /\ coverage = <<>>
    /\ div_by_zero = FALSE
    /\ parcels_per_band = NoData
    /\ eigVal = NoData
    /\ group_indices = NoData
    /\ band_wavelengths = NoData
    /\ FileVarsIdle
    /\ JobVarsIdle

\* one call of calculate_band_coverage, for the next band of CoverageBands
CallBandCoverage ==
    /\ pc = "coverage"
    /\ Len(coverage) < Len(CoverageBands)
    /\ coverage' = Append(coverage,
           calculate_band_coverage(vertices, faces, loc_dom_band,
                                   CoverageBands[Len(coverage) + 1]))
    /\ div_by_zero' = (div_by_zero \/ Len(loc_dom_band) = 0
                                   \/ MeshArea(vertices, faces) = Zero)
    /\ UNCHANGED <<pc, vertices, faces, loc_dom_band, parcels_per_band,
                   eigVal, group_indices, band_wavelengths>>
    /\ UNCHANGED <<fileVars, jobVars>>

NextCoverage == CallBandCoverage

SpecCoverage == InitCoverage /\ [][NextCoverage]_vars

\* --------------------------------------------- SpecParcels: parcel counts
\* the dominant band of a vertex: 0 for none, +k on a gyrus and -k in a
\* sulcus, for the bands k = 1..MaxBand of the decomposition
ParcelLabels == (-MaxBand)..MaxBand

InitParcels ==
    /\ pc = "parcels"
    /\ \E N \in 1..MaxParcelN :
         /\ faces \in FaceLists(N, MaxFaces)
         /\ loc_dom_band \in [1..N -> ParcelLabels]
    /\ parcels_per_band = <<>>
    /\ vertices = NoData
    /\ coverage = NoData
    /\ div_by_zero = FALSE
    /\ eigVal = NoData
    /\ group_indices = NoData
    /\ band_wavelengths = NoData
    /\ FileVarsIdle
    /\ JobVarsIdle

\* calculate_parcels_per_band(loc_dom_band, levels); the mesh is not an argument
CallParcels ==
    /\ pc = "parcels"
    /\ parcels_per_band' = calculate_parcels_per_band(loc_dom_band, levels)
    /\ pc' = "done"
    /\ UNCHANGED <<vertices, faces, loc_dom_band, coverage, eigVal,
                   group_indices, band_wavelengths, div_by_zero>>
    /\ UNCHANGED <<fileVars, jobVars>>

NextParcels == CallParcels

SpecParcels == InitParcels /\ [][NextParcels]_vars

\* ------------------------------------------ SpecWavelength: wavelengths
\* eigenvalues in units of pi: 0, 2*pi, 4*pi, 16*pi
EigenUnits == {0, 2, 4, 16}

\* ascending eigenvalue sequences of length K
Spectra(K) == {ev \in [1..K -> EigenUnits] : \A i \in 1..(K - 1) : ev[i] <= ev[i + 1]}

RECURSIVE SortedSeq(_)
SortedSeq(S) ==
    IF S = {} THEN <<>>
    ELSE LET m == CHOOSE x \in S : \A y \in S : x <= y
         IN <<m>> \o SortedSeq(S \ {m})

\* G pairwise disjoint index groups over [0, K), some possibly empty
Groupings(K, G) ==
    {[g \in 1..G |-> SortedSeq({i \in 0..(K - 1) : a[i] = g})] :
        a \in [0..(K - 1) -> 0..G]}

InitWavelength ==
    /\ pc = "wavelength"
    /\ \E K \in 1..MaxK, G \in 1..MaxGroups :
         /\ eigVal \in Spectra(K)
         /\ group_indices \in Groupings(K, G)
    /\ band_wavelengths = <<>>
    /\ div_by_zero = FALSE
    /\ vertices = NoData
    /\ faces = NoData
    /\ loc_dom_band = NoData
    /\ parcels_per_band = NoData
    /\ coverage = NoData
    /\ FileVarsIdle
    /\ JobVarsIdle

\* one iteration of "for indices in group_indices"
WavelengthIteration ==
    /\ pc = "wavelength"
    /\ Len(band_wavelengths) < Len(group_indices)
    /\ LET r == BandWavelength(eigVal, group_indices[Len(band_wavelengths) + 1])
       IN /\ band_wavelengths' = Append(band_wavelengths, r.wavelength)
          /\ div_by_zero' = (div_by_zero \/ r.by_zero)
    /\ UNCHANGED <<pc, vertices, faces, loc_dom_band, parcels_per_band, coverage,
                   eigVal, group_indices>>
    /\ UNCHANGED <<fileVars, jobVars>>

\* return band_wavelengths
WavelengthReturn ==
    /\ pc = "wavelength"
    /\ Len(band_wavelengths) = Len(group_indices)
    /\ pc' = "done"
    /\ UNCHANGED <<vertices, faces, loc_dom_band, parcels_per_band, coverage,
                   eigVal, group_indices, band_wavelengths, div_by_zero>>
    /\ UNCHANGED <<fileVars, jobVars>>

NextWavelength == WavelengthIteration \/ WavelengthReturn

SpecWavelength == InitWavelength /\ [][NextWavelength]_vars

\* ------------------------------------------- get_gyrification_index
\* A Python call either returns a value or raises: [exc, value], where exc
\* is the name of the exception ("none" when the call returns) and value is
\* <<>> when the call raises.
Returns(v) == [exc |-> "none", value |-> v]

Raises(e) == [exc |-> e, value |-> <<>>]

\* faulty variant of PyFloatDiv, for mutation testing: numpy's division,
\* which gives inf or nan instead of raising
PyFloatDivAsNumpy(x, y) == Returns(Div(x, y))

\* x / y on two Python floats: a zero divisor raises ZeroDivisionError
PyFloatDiv(x, y) ==
    IF y = Zero THEN Raises("ZeroDivisionError") ELSE Returns(Div(x, y))

\* get_hull_area(mesh): float(convex_hull.area); h is what
\* trimesh.convex.convex_hull gives, an area or an exception
get_hull_area(h) == h

\* faulty variant of GyrificationRatio, for mutation testing: the ratio
\* upside down
GyrificationRatioInverted(mesh_area, hull_area) == PyFloatDiv(hull_area, mesh_area)

\* float(mesh.area) / hull_area
GyrificationRatio(mesh_area, hull_area) == PyFloatDiv(mesh_area, hull_area)

\* get_gyrification_index(mesh): the pair (gyrification_index, hull_area)
get_gyrification_index(vs, fs, h) ==
    LET hull_area == get_hull_area(h)
    IN IF hull_area.exc # "none" THEN Raises(hull_area.exc)
       ELSE LET gyrification_index == GyrificationRatio(MeshArea(vs, fs), hull_area.value)
            IN IF gyrification_index.exc # "none" THEN Raises(gyrification_index.exc)
               ELSE Returns(<<gyrification_index.value, hull_area.value>>)

\* ------------------------------------- SpecGyrification: gyrification index
\* The convex hull is built by trimesh, outside this repository: its area is
\* a sum of triangle areas, hence never negative, and the construction may
\* fail on a degenerate point set.
HullAreas == {Zero, Half, Flt(1), Flt(2), Num(0, 1, 1), Num(1, 1, 2)}

ConvexHulls == {Returns(a) : a \in HullAreas} \cup {Raises("QhullError")}

\* a hull that returns has area 0 exactly when the mesh it encloses has
HullOfMesh(vs, fs, h) ==
    h.exc = "none" => (h.value = Zero <=> MeshArea(vs, fs) = Zero)

InitGyrification ==
    /\ pc = "gyrification"
    /\ \E N \in 3..MaxN :
         /\ vertices \in VertexArrays(N)
         /\ faces \in FaceLists(N, MaxFaces)
    /\ hull \in ConvexHulls
    /\ HullOfMesh(vertices, faces, hull)
    /\ gyrification = NoData
    /\ loc_dom_band = NoData
    /\ parcels_per_band = NoData
    /\ coverage = NoData
    /\ eigVal = NoData
    /\ group_indices = NoData
    /\ band_wavelengths = NoData
    /\ div_by_zero = FALSE
    /\ all_files = NoData
    /\ returned = NoData
    /\ results = NoData
    /\ csv = NoData
    /\ disk = NoData
    /\ environ = NoData
    /\ JobVarsIdle

\* the call get_gyrification_index(mesh)
CallGyrification ==
    /\ pc = "gyrification"
    /\ gyrification' = get_gyrification_index(vertices, faces, hull)
    /\ pc' = "done"
    /\ UNCHANGED <<vertices, faces, loc_dom_band, parcels_per_band, coverage,
                   eigVal, group_indices, band_wavelengths, div_by_zero,
                   hull, all_files, returned, results, csv, disk, environ, jobVars>>

NextGyrification == CallGyrification

SpecGyrification == InitGyrification /\ [][NextGyrification]_vars

\* ------------------------------------------------- process_single_file
\* A file name is the sequence of its parts between underscores:
\* sub-01_ses-01_left.surf.gii is <<"sub-01", "ses-01", "left.surf.gii">>.

\* faulty variant of StripSmoothPrefix, for mutation testing: the listed
\* name is kept as it is
KeepListedName(fn) == fn

\* filename.replace('smooth_5_', ''): every occurrence goes
RECURSIVE StripSmoothPrefix(_)
StripSmoothPrefix(fn) ==
    IF Len(fn) >= 3 /\ fn[1] = "smooth" /\ fn[2] = "5"
    THEN StripSmoothPrefix(SubSeq(fn, 3, Len(fn)))
    ELSE IF fn = <<>> THEN <<>>
    ELSE <<Head(fn)>> \o StripSmoothPrefix(Tail(fn))

\* filename.endswith('left.surf.gii')
EndsWithLeft(fn) == fn # <<>> /\ fn[Len(fn)] = "left.surf.gii"

\* filename.endswith('right.surf.gii')
EndsWithRight(fn) == fn # <<>> /\ fn[Len(fn)] = "right.surf.gii"

\* df[df['participant_session'] == base_participant_session]['scan_age'].values[0]
ScanAge(df, base) ==
    LET rows == SelectSeq(df, LAMBDA r : <<r.subject_id, r.session_id>> = base)
    IN IF rows = <<>> THEN Raises("IndexError") ELSE Returns(rows[1].scan_age)

\* the value None
None == [NoneType |-> TRUE]

\* what a call of process_single_file gives and prints
Outcome(e, v, msgs) == [exc |-> e, value |-> v, printed |-> msgs]

Message(t, a, d) == [text |-> t, about |-> a, detail |-> d]

\* a key of the result dict: f'{name}', or f'B{i}_{name}' and f'{name}{i}'
\* for the keys that carry a band number
Key(name) == <<name, -1>>

BandKey(name, i) == <<name, i>>

\* a dict built from its items in order: of the items with one key the
\* last gives the value
DictOf(items) ==
    LET keys == {items[i][1] : i \in DOMAIN items}
        last(k) == LET at == {i \in DOMAIN items : items[i][1] = k}
                   IN CHOOSE i \in at : \A j \in at : j <= i
    IN [k \in keys |-> items[last(k)][2]]

\* np.floor, on a finite number or nan
Floor(x) ==
    IF ~IsFinite(x) THEN x
    ELSE LET m == Abs(x[1]) + 2 * Abs(x[2]) + 1
             above(n) == IsPositive(Add(Flt(n), Mul(Flt(-1), x)))
         IN Flt(CHOOSE n \in (-m)..m : ~above(n) /\ above(n + 1))

mL_in_MM3 == 1000

CM2_in_MM2 == 100

\* np.max(loc_dom_band)
RECURSIVE MaxOf(_)
MaxOf(xs) ==
    IF Len(xs) = 1 THEN xs[1]
    ELSE LET m == MaxOf(Tail(xs)) IN IF xs[1] > m THEN xs[1] ELSE m

\* an index out of range: band_vertices[face] (utils.py 133) or
\* vertices[face] (utils.py 135) raises IndexError
CoverageIndexError(vs, fs, ldb, band_idx) ==
    \E k \in 1..Len(fs) :
        \/ \E j \in 1..3 : fs[k][j] >= Len(ldb)
        \/ /\ \A j \in 1..3 : fs[k][j] < Len(ldb)
           /\ FaceSelected(BandVertices(ldb, band_idx), fs[k])
           /\ \E j \in 1..3 : fs[k][j] >= Len(vs)

\* the body of "for band_idx in [4, 5, 6]" (lines 192-196)
BandCoverageOrZeros(vs, fs, ldb, band_idx, max_band) ==
    IF band_idx <= max_band
    THEN IF CoverageIndexError(vs, fs, ldb, band_idx) THEN Raises("IndexError")
         ELSE Returns(calculate_band_coverage(vs, fs, ldb, band_idx))
    ELSE Returns([band_idx |-> band_idx, num_vertices |-> 0, vertex_percentage |-> Zero,
                  total_area |-> Zero, area_percentage |-> Zero])

\* the body of the second "for band_idx in [4, 5, 6]" (lines 205-210);
\* grouped_spectrum[band_idx] / afp is a numpy division
BandPower(grouped_spectrum, afp, band_idx) ==
    IF band_idx < Len(grouped_spectrum)
    THEN [power |-> grouped_spectrum[band_idx + 1],
          rel_power |-> Div(grouped_spectrum[band_idx + 1], afp)]
    ELSE [power |-> Zero, rel_power |-> Zero]

\* power_distribution (line 66)
PowerDistribution(grouped_spectrum) ==
    LET total_power == SumSeq(grouped_spectrum)
    IN [i \in DOMAIN grouped_spectrum |->
           IF IsPositive(total_power)
           THEN Mul(Div(grouped_spectrum[i], total_power), Flt(100))
           ELSE Zero]

\* calculate_band_wavelength(eigVal, group_indices)
calculate_band_wavelength(ev, groups) ==
    [k \in DOMAIN groups |-> BandWavelength(ev, groups[k]).wavelength]

\* the bands of the summary, in the order of the lists band_vertices, ...
SummaryBands == <<4, 5, 6>>

\* the dict literal of lines 220-246, item by item; m holds the scalars of
\* the mesh
ResultItems(m, sp, gyr, cov, pow) ==
    <<<<Key("participant_session"), m.participant_session>>,
      <<Key("gestational_age"), m.gestational_age>>,
      <<Key("total_mean_curvature"), sp.total_mean_curv>>,
      <<Key("gyrification_index"), gyr[1]>>,
      <<Key("hull_area"), gyr[2]>>,
      <<Key("volume_ml"), Floor(Div(m.volume, Flt(mL_in_MM3)))>>,
      <<Key("surface_area_cm2"), Floor(Div(m.surface_area, Flt(CM2_in_MM2)))>>,
      <<Key("analyze_folding_power"), SumSeq(Tail(sp.grouped_spectrum))>>,
      <<Key("processing_time"), m.execution_time>>,
      <<BandKey("B_band_relative_power", 4), pow[1].rel_power>>,
      <<BandKey("B_band_relative_power", 5), pow[2].rel_power>>,
      <<BandKey("B_band_relative_power", 6), pow[3].rel_power>>,
      <<BandKey("B_number_of_vertices", 4), cov[1].num_vertices>>,
      <<BandKey("B_number_of_vertices", 5), cov[2].num_vertices>>,
      <<BandKey("B_number_of_vertices", 5), cov[3].num_vertices>>,
      <<BandKey("B_vertex_percentage", 4), cov[1].vertex_percentage>>,
      <<BandKey("B_vertex_percentage", 5), cov[2].vertex_percentage>>,
      <<BandKey("B_vertex_percentage", 6), cov[3].vertex_percentage>>,
      <<BandKey("B_surface_area", 4), cov[1].total_area>>,
      <<BandKey("B_surface_area", 5), cov[2].total_area>>,
      <<BandKey("B_surface_area", 6), cov[3].total_area>>,
      <<BandKey("B_surface_area_percentage", 4), cov[1].area_percentage>>,
      <<BandKey("B_surface_area_percentage", 5), cov[2].area_percentage>>,
      <<BandKey("B_surface_area_percentage", 6), cov[3].area_percentage>>>>

\* the items added by "for i in range(levels)" (lines 249-253)
BandItems(sp, wavelengths, parcels, i) ==
    <<<<BandKey("band_power_B", i), sp.grouped_spectrum[i + 1]>>,
      <<BandKey("band_power_pct_B", i), PowerDistribution(sp.grouped_spectrum)[i + 1]>>,
      <<BandKey("band_wavelength_B", i), wavelengths[i + 1]>>,
      <<BandKey("band_parcels_B", i), parcels[i + 1]>>>>

RECURSIVE AllBandItems(_, _, _, _)
AllBandItems(sp, wavelengths, parcels, n) ==
    IF n = 0 THEN <<>>
    ELSE AllBandItems(sp, wavelengths, parcels, n - 1)
             \o BandItems(sp, wavelengths, parcels, n - 1)

\* mesh.area (line 113) on a face that names a vertex the mesh has not
FaceOutOfRange(vs, fs) == \E k \in 1..Len(fs), j \in 1..3 : fs[k][j] >= Len(vs)

\* faulty variant of Caught, for mutation testing: no "except Exception",
\* the exception leaves process_single_file
Uncaught(stripped, e) == Outcome(e, None, <<>>)

\* except Exception as e (lines 257-261): the error is printed with the
\* file name and None is returned
Caught(stripped, e) == Outcome("none", None, <<Message("Error processing", stripped, e)>>)

\* a step of process_single_file that reads, computes or touches the file
\* system: what is done, in which directory, for which name
Step(op, dir, name) == [op |-> op, dir |-> dir, name |-> name]

\* an outcome together with the steps taken before it, in order
After(steps, outcome) ==
    [exc |-> outcome.exc, value |-> outcome.value, printed |-> outcome.printed,
     steps |-> steps]

\* lines 38-51: the mesh at os.path.join(surface_path, filename) is loaded
\* and its eigenpairs are computed
LoadSteps(stripped) ==
    <<Step("load_mesh", "surface_path", stripped), Step("eigenpairs", "", stripped)>>

\* lines 90-106: the plots directory is made and two figures are saved
PlotSteps(stripped) ==
    <<Step("makedirs", "plots_dir", <<>>),
      Step("savefig", "plots_dir", stripped),
      Step("savefig", "plots_dir", <<"power", "distribution">> \o stripped)>>

\* lines 156-178: the texture and the recomposed bands are written
SaveSteps(stripped, participant_session) ==
    <<Step("makedirs", "spangy/textures", <<>>),
      Step("write_texture", "spangy/textures",
           <<"spangy", "dom", "band">> \o participant_session),
      Step("makedirs", "frecomposed_dir", <<>>),
      Step("makedirs", "frecomposed_dir/bands", <<>>),
      Step("makedirs", "frecomposed_dir/full", <<>>),
      Step("save", "frecomposed_dir/full", <<"frecomposed", "full">> \o stripped)>>

\* lines 44-255: the analysis of a mesh file that exists; c is what the
\* libraries read and derive for it. c.spectrum stands for the calls
\* eigenpairs, load_texture and spectrum, c.dominance for local_dominance_map.
AnalyseMesh(stripped, participant_session, gestational_age, c) ==
    IF c.spectrum.exc # "none"
    THEN After(LoadSteps(stripped), Caught(stripped, c.spectrum.exc))
    ELSE IF FaceOutOfRange(c.vertices, c.faces)
    THEN After(LoadSteps(stripped) \o PlotSteps(stripped), Caught(stripped, "IndexError"))
    ELSE IF c.dominance.exc # "none"
    THEN After(LoadSteps(stripped) \o PlotSteps(stripped), Caught(stripped, c.dominance.exc))
    ELSE
    LET sp == c.spectrum.value
        steps == LoadSteps(stripped) \o PlotSteps(stripped)
                     \o SaveSteps(stripped, participant_session)
        lvls == Len(sp.group_indices)
        wavelengths == calculate_band_wavelength(sp.eigVal, sp.group_indices)
        afp == SumSeq(Tail(sp.grouped_spectrum))
        ldb == c.dominance.value
        parcels == calculate_parcels_per_band(ldb, lvls)
        gyr == get_gyrification_index(c.vertices, c.faces, c.hull)
    IN IF gyr.exc # "none" THEN After(steps, Caught(stripped, gyr.exc))
       ELSE IF ldb = <<>> THEN After(steps, Caught(stripped, "ValueError"))
       ELSE
       LET max_band == MaxOf(ldb)
           cov == [b \in 1..3 |->
                      BandCoverageOrZeros(c.vertices, c.faces, ldb, SummaryBands[b], max_band)]
           pow == [b \in 1..3 |-> BandPower(sp.grouped_spectrum, afp, SummaryBands[b])]
       IN IF \E b \in 1..3 : cov[b].exc # "none"
          THEN After(steps, Caught(stripped, "IndexError"))
          ELSE After(steps,
               Outcome("none",
                       DictOf(ResultItems([participant_session |-> participant_session,
                                           gestational_age |-> gestational_age,
                                           volume |-> c.volume,
                                           surface_area |-> MeshArea(c.vertices, c.faces),
                                           execution_time |-> c.elapsed],
                                          sp, gyr.value, [b \in 1..3 |-> cov[b].value], pow)
                              \o AllBandItems(sp, wavelengths, parcels, lvls)),
                       <<>>))

\* process_single_file(filename, surface_path, df); present is the set of
\* the names os.path.exists finds in surface_path, files maps each to what
\* is read and derived from it. output_directories (line 29) only builds
\* path strings (directories.py 14-37): it is no step.
process_single_file(filename, present, df, files) ==
    LET stripped == StripSmoothPrefix(filename)
    IN IF Len(stripped) < 2 THEN After(<<>>, Caught(stripped, "IndexError"))
       ELSE
       LET hemisphere == IF EndsWithLeft(stripped) THEN "left" ELSE "right"
           participant_session == <<stripped[1], stripped[2], hemisphere>>
           base_participant_session == <<stripped[1], stripped[2]>>
           gestational_age == ScanAge(df, base_participant_session)
       IN IF gestational_age.exc # "none"
          THEN After(<<>>,
                     Outcome("none", None,
                             <<Message("Warning: No matching gestational age found",
                                       base_participant_session, "")>>))
          ELSE IF stripped \notin present
          THEN After(<<>>,
                     Outcome("none", None,
                             <<Message("Error: Mesh file not found", stripped, "")>>))
          ELSE AnalyseMesh(stripped, participant_session, gestational_age.value,
                           files[stripped])

\* ---------------------------------------------------------------- main
Min(a, b) == IF a < b THEN a ELSE b

\* faulty variant of ChunkSize, for mutation testing: the quotient is not
\* rounded up
ChunkSizeRoundedDown(n_files, n_tasks) == n_files \div n_tasks

\* chunk_size (line 61)
ChunkSize(n_files, n_tasks) ==
    n_files \div n_tasks + (IF n_files % n_tasks > 0 THEN 1 ELSE 0)

\* start_idx (line 62)
StartIdx(task_id, chunk_size) == task_id * chunk_size

\* end_idx (line 63)
EndIdx(task_id, chunk_size, n_files) == Min((task_id + 1) * chunk_size, n_files)

\* xs[start:end] for indices that are not negative: the elements at the
\* 0-based positions start .. end - 1 that xs has, none if start >= end
Slice(xs, start, end) ==
    LET last == Min(end, Len(xs))
    IN IF start >= last THEN <<>> ELSE [k \in 1..(last - start) |-> xs[start + k]]

\* the files this run processes: all of them in local mode, the chunk of
\* the array task otherwise (lines 62-64, 68)
FilesOfRun(files, env) ==
    IF ~env.slurm THEN files
    ELSE LET chunk_size == ChunkSize(Len(files), env.n_tasks)
             start_idx == StartIdx(env.task_id, chunk_size)
             end_idx == EndIdx(env.task_id, chunk_size, Len(files))
         IN Slice(files, start_idx, end_idx)

\* faulty variant of Truthy, for mutation testing: every result is appended
AlwaysTruthy(v) == TRUE

\* "if result:": None and the empty dict are false
Truthy(v) == v # None /\ DOMAIN v # {}

\* an empty cell of a table
Blank == NaN

\* pd.DataFrame(results): one row for each dict, in order; the columns are
\* the keys of the dicts, a cell being blank where a dict lacks the key
DataFrame(rs) ==
    LET columns == UNION {DOMAIN rs[i] : i \in DOMAIN rs}
    IN [i \in DOMAIN rs |->
           [k \in columns |-> IF k \in DOMAIN rs[i] THEN rs[i][k] ELSE Blank]]

\* the rows of mesh_info_path (lines 29-30)
MeshInfo ==
    <<[subject_id |-> "sub-01", session_id |-> "ses-01", scan_age |-> 30]>>

\* the set of names os.path.exists finds
Present(files) == {files[i] : i \in DOMAIN files}

\* one pass of "for filename in all_files" (lines 43-46, 69-72); an
\* exception that leaves process_single_file ends main in sys.exit(1)
MainProcessFile ==
    /\ pc = "main"
    /\ Len(returned) < Len(FilesOfRun(all_files, environ))
    /\ LET filename == FilesOfRun(all_files, environ)[Len(returned) + 1]
           result == process_single_file(filename, Present(all_files), MeshInfo, disk)
       IN /\ returned' = Append(returned, result)
          /\ IF result.exc # "none"
             THEN pc' = "exit1" /\ UNCHANGED results
             ELSE /\ pc' = pc
                  /\ results' = IF Truthy(result.value)
                                THEN Append(results, result.value)
                                ELSE results
    /\ UNCHANGED <<vertices, faces, loc_dom_band, parcels_per_band, coverage,
                   eigVal, group_indices, band_wavelengths, div_by_zero,
                   hull, gyrification, all_files, csv, disk, environ, jobVars>>

\* after the loop (lines 48-53, 75-81): the table is written if there are results
MainSave ==
    /\ pc = "main"
    /\ Len(returned) = Len(FilesOfRun(all_files, environ))
    /\ csv' = IF results # <<>>
              THEN [written |-> TRUE, rows |-> DataFrame(results)]
              ELSE [written |-> FALSE, rows |-> <<>>]
    /\ pc' = "done"
    /\ UNCHANGED <<vertices, faces, loc_dom_band, parcels_per_band, coverage,
                   eigVal, group_indices, band_wavelengths, div_by_zero,
                   hull, gyrification, all_files, returned, results, disk, environ,
                   jobVars>>

NextMain == MainProcessFile \/ MainSave

\* ------------------------------------------------- SpecMain: a run of main
MaxFiles == 3

MaxTasks == 2

\* names that pass the filter of line 35: a left and a right hemisphere, a
\* smoothed copy of the left one, a participant mesh_info has no row for,
\* and a name without an underscore
LeftFile == <<"sub-01", "ses-01", "left.surf.gii">>

RightFile == <<"sub-01", "ses-01", "right.surf.gii">>

SmoothedFile == <<"smooth", "5", "sub-01", "ses-01", "left.surf.gii">>

UnknownFile == <<"sub-02", "ses-01", "left.surf.gii">>

ShortFile == <<"left.surf.gii">>

FileNames == {LeftFile, RightFile, SmoothedFile, UnknownFile, ShortFile}

\* all_files (line 35): os.listdir gives every name once, in any order, and
\* the names that end in left.surf.gii or right.surf.gii are kept
Listings(n) ==
    {q \in SeqsUpTo({f \in FileNames : EndsWithLeft(f) \/ EndsWithRight(f)}, n) :
        \A i, j \in DOMAIN q : i # j => q[i] # q[j]}

\* the names process_single_file opens a mesh for
Opened(files) ==
    {n \in Present(files) :
        /\ StripSmoothPrefix(n) = n
        /\ Len(n) >= 2
        /\ ScanAge(MeshInfo, <<n[1], n[2]>>).exc = "none"}

\* what spgy.eigenpairs and spgy.spectrum give: seven bands B0..B6, the same
\* with no power at all, and five bands B0..B4
Decomposition(n, powers) ==
    [eigVal |-> SubSeq(<<0, 2, 4, 16, 18, 32, 36>>, 1, n),
     group_indices |-> [k \in 1..n |-> <<k - 1>>],
     grouped_spectrum |-> [k \in 1..n |-> Flt(powers[k])],
     total_mean_curv |-> Flt(3)]

SevenBands == Decomposition(7, <<1, 1, 2, 3, 4, 5, 6>>)

NoPower == Decomposition(7, <<0, 0, 0, 0, 0, 0, 0>>)

FiveBands == Decomposition(5, <<1, 1, 2, 3, 4>>)

Decompositions ==
    {Returns(SevenBands), Returns(NoPower), Returns(FiveBands),
     Raises("FileNotFoundError")}

\* one triangle: flat on a line, on a parabola, tilted, and one whose face
\* names a vertex the mesh has not
FileMeshes ==
    {[vertices |-> vs, faces |-> <<<<0, 1, 2>>>>] : vs \in VertexArrays(3)}
    \cup {[vertices |-> [i \in 1..3 |-> <<i - 1, (i - 1) * (i - 1), 0>>],
           faces |-> <<<<0, 1, 3>>>>]}

\* the labels of a dominant-band array of the summary bands
FileLabelValues == {-5, 0, 5, 6}

\* what spgy.local_dominance_map gives: a label array that is one short,
\* right, or one long for the three vertices, or an exception
DominanceMaps ==
    {Returns(l) : l \in UNION {[1..n -> FileLabelValues] : n \in 2..4}}
    \cup {Raises("ValueError")}

FileHulls == {Returns(Zero), Returns(Flt(2)), Raises("QhullError")}

\* what is read and derived for one mesh file
FileContent(mesh, sp, dom, h) ==
    [vertices |-> mesh.vertices, faces |-> mesh.faces,
     volume |-> Flt(2500), elapsed |-> Flt(1),
     spectrum |-> sp, dominance |-> dom, hull |-> h]

\* the labels name bands of the decomposition; the hull is the mesh's
Coherent(c) ==
    /\ (c.spectrum.exc = "none" /\ c.dominance.exc = "none") =>
           \A v \in DOMAIN c.dominance.value :
               Abs(c.dominance.value[v]) < Len(c.spectrum.value.group_indices)
    /\ ~FaceOutOfRange(c.vertices, c.faces) => HullOfMesh(c.vertices, c.faces, c.hull)

FileContents ==
    {c \in {FileContent(mesh, sp, dom, h) :
                mesh \in FileMeshes, sp \in Decompositions,
                dom \in DominanceMaps, h \in FileHulls} : Coherent(c)}

Parabola == [vertices |-> [i \in 1..3 |-> <<i - 1, (i - 1) * (i - 1), 0>>],
             faces |-> <<<<0, 1, 2>>>>]

Line == [vertices |-> [i \in 1..3 |-> <<i - 1, 0, 0>>], faces |-> <<<<0, 1, 2>>>>]

\* the contents of the files of a batch: a mesh the analysis completes for,
\* a degenerate one, one with no dominance map and one the decomposition
\* gives five bands for
BatchContents ==
    {FileContent(Parabola, Returns(SevenBands), Returns(<<4, 5, 5>>), Returns(Flt(2))),
     FileContent(Line, Returns(SevenBands), Returns(<<4, 5, 5>>), Returns(Zero)),
     FileContent(Parabola, Returns(SevenBands), Raises("ValueError"), Returns(Flt(2))),
     FileContent(Parabola, Returns(FiveBands), Returns(<<4, 4, 0>>), Returns(Flt(2)))}

LocalMode == [slurm |-> FALSE, task_id |-> 0, n_tasks |-> 1]

Environments ==
    {LocalMode}
    \cup {[slurm |-> TRUE, task_id |-> t, n_tasks |-> n] :
              n \in 1..MaxTasks, t \in 0..(MaxTasks - 1)}

\* the state when the loop over all_files starts (line 39 or 67): a batch
\* of files in either mode, or one file of any content in local mode
InitMain ==
    /\ pc = "main"
    /\ \/ /\ all_files \in Listings(MaxFiles)
          /\ disk \in [Opened(all_files) -> BatchContents]
          /\ environ \in Environments
          /\ environ.slurm => environ.task_id < environ.n_tasks
       \/ /\ all_files = <<LeftFile>>
          /\ disk \in [{LeftFile} -> FileContents]
          /\ environ = LocalMode
    /\ returned = <<>>
    /\ results = <<>>
    /\ csv = NoData
    /\ hull = NoData
    /\ gyrification = NoData
    /\ vertices = NoData
    /\ faces = NoData
    /\ loc_dom_band = NoData
    /\ parcels_per_band = NoData
    /\ coverage = NoData
    /\ eigVal = NoData
    /\ group_indices = NoData
    /\ band_wavelengths = NoData
    /\ div_by_zero = FALSE
    /\ JobVarsIdle

SpecMain == InitMain /\ [][NextMain]_vars

\* ------------------------------------- SpecArray: the tasks of an array job
\* Every task of a SLURM array runs main with its own SLURM_ARRAY_TASK_ID
\* and lists the same directory.
MaxListed == 5

MaxArrayTasks == 4

\* n listed file names; the number stands for the session part of the name
ArrayListing(n) == [i \in 1..n |-> <<"sub-01", i, "left.surf.gii">>]

\* os.environ of the tasks 0 .. n - 1 of an array of n tasks
ArrayEnvironments(n) ==
    [t \in 0..(n - 1) |-> [slurm |-> TRUE, task_id |-> t, n_tasks |-> n]]

InitArray ==
    /\ pc = "array"
    /\ \E n_files \in 0..MaxListed : all_files = ArrayListing(n_files)
    /\ \E n_tasks \in 1..MaxArrayTasks : environ = ArrayEnvironments(n_tasks)
    /\ chunks = [t \in {} |-> NoData]
    /\ dirs = NoData
    /\ calls = NoData
    /\ hull = NoData
    /\ gyrification = NoData
    /\ returned = NoData
    /\ results = NoData
    /\ csv = NoData
    /\ disk = NoData
    /\ vertices = NoData
    /\ faces = NoData
    /\ loc_dom_band = NoData
    /\ parcels_per_band = NoData
    /\ coverage = NoData
    /\ eigVal = NoData
    /\ group_indices = NoData
    /\ band_wavelengths = NoData
    /\ div_by_zero = FALSE

\* task t computes its chunk and takes its files (lines 58-69); the tasks
\* run in any order
ArrayTask(t) ==
    /\ pc = "array"
    /\ t \in DOMAIN environ
    /\ t \notin DOMAIN chunks
    /\ LET env == environ[t]
           chunk_size == ChunkSize(Len(all_files), env.n_tasks)
       IN chunks' = chunks @@
              (t :> [start_idx |-> StartIdx(env.task_id, chunk_size),
                     end_idx |-> EndIdx(env.task_id, chunk_size, Len(all_files)),
                     files |-> FilesOfRun(all_files, env)])
    /\ UNCHANGED <<pc, vertices, faces, loc_dom_band, parcels_per_band, coverage,
                   eigVal, group_indices, band_wavelengths, div_by_zero,
                   hull, gyrification, all_files, returned, results, csv, disk,
                   environ, dirs, calls>>

NextArray == \E t \in 0..MaxArrayTasks : ArrayTask(t)

SpecArray == InitArray /\ [][NextArray]_vars

\* ------------------------------------------------------ ensure_dir_exists
\* A path is the sequence of its components below the root, which exists.

\* os.path.exists(path), os.path.isdir(path): only directories are made here
PathExists(path, existing) == path = <<>> \/ path \in existing

\* the first k components of a path
Prefix(path, k) == SubSeq(path, 1, k)

\* the system call os.mkdir(path)
Mkdir(path, existing) ==
    IF PathExists(path, existing) THEN "FileExistsError"
    ELSE IF ~PathExists(Prefix(path, Len(path) - 1), existing) THEN "FileNotFoundError"
    ELSE "none"

\* os.makedirs(name, exist_ok=True) after its os.mkdir(name) gave e: an
\* OSError is raised again unless exist_ok is set and name is a directory
MakedirsRaises(e, exist_ok, is_dir) == e # "none" /\ ~(exist_ok /\ is_dir)

\* except FileExistsError (utils.py 151-154)
Handled(e) == e = "FileExistsError"

\* faulty variant of MustCreate, for mutation testing: the test of line 148
\* without its "not"
MustCreateWhenPresent(directory, existing) == PathExists(directory, existing)

\* if not os.path.exists(directory) (line 148)
MustCreate(directory, existing) == ~PathExists(directory, existing)

\* a call of ensure_dir_exists: where it is, the length of the prefix its
\* os.makedirs works on, whether its os.mkdir of the directory found the
\* directory made by another process, and the error it ended with
Call(at, k, found, e) == [at |-> at, level |-> k, raced |-> found, error |-> e]

\* ------------------------------ SpecDirs: concurrent ensure_dir_exists
MaxProcs == 3

\* the directory all processes ask for: plots_dir below its parent
Directory == <<"spangy", "plots">>

\* the directories that exist when the processes start: none, the parent,
\* or both
InitialDirs == {{Prefix(Directory, j) : j \in 1..k} : k \in 0..Len(Directory)}

InitDirs ==
    /\ pc = "dirs"
    /\ dirs \in InitialDirs
    /\ \E n \in 1..MaxProcs : calls = [p \in 1..n |-> Call("exists", 0, FALSE, "none")]
    /\ chunks = NoData
    /\ hull = NoData
    /\ gyrification = NoData
    /\ all_files = NoData
    /\ returned = NoData
    /\ results = NoData
    /\ csv = NoData
    /\ disk = NoData
    /\ environ = NoData
    /\ vertices = NoData
    /\ faces = NoData
    /\ loc_dom_band = NoData
    /\ parcels_per_band = NoData
    /\ coverage = NoData
    /\ eigVal = NoData
    /\ group_indices = NoData
    /\ band_wavelengths = NoData
    /\ div_by_zero = FALSE

DirsUnchanged ==
    UNCHANGED <<pc, vertices, faces, loc_dom_band, parcels_per_band, coverage,
                eigVal, group_indices, band_wavelengths, div_by_zero, fileVars, chunks>>

\* process p tests whether the directory exists (line 148) and returns if
\* it does
CheckExists(p) ==
    /\ pc = "dirs"
    /\ p \in DOMAIN calls
    /\ calls[p].at = "exists"
    /\ calls' = [calls EXCEPT ![p] =
                     IF MustCreate(Directory, dirs)
                     THEN Call("head_exists", Len(Directory), FALSE, "none")
                     ELSE Call("returned", 0, FALSE, "none")]
    /\ UNCHANGED dirs
    /\ DirsUnchanged

\* os.makedirs on the prefix of length level tests whether its parent
\* exists and calls itself on the parent if not
CheckHead(p) ==
    /\ pc = "dirs"
    /\ p \in DOMAIN calls
    /\ calls[p].at = "head_exists"
    /\ LET k == calls[p].level
       IN calls' = [calls EXCEPT ![p] =
                        IF PathExists(Prefix(Directory, k - 1), dirs)
                        THEN Call("mkdir", k, FALSE, "none")
                        ELSE Call("head_exists", k - 1, FALSE, "none")]
    /\ UNCHANGED dirs
    /\ DirsUnchanged

\* os.makedirs calls os.mkdir on the prefix of length level; an error of a
\* parent that is not FileExistsError, or one of the directory that
\* os.makedirs raises again and line 151 does not handle, ends the call
MakeDir(p) ==
    /\ pc = "dirs"
    /\ p \in DOMAIN calls
    /\ calls[p].at = "mkdir"
    /\ LET k == calls[p].level
           path == Prefix(Directory, k)
           e == Mkdir(path, dirs)
           made == IF e = "none" THEN dirs \cup {path} ELSE dirs
           raised == MakedirsRaises(e, TRUE, PathExists(path, made))
       IN /\ dirs' = made
          /\ calls' = [calls EXCEPT ![p] =
                 IF raised /\ ~Handled(e) THEN Call("failed", k, FALSE, e)
                 ELSE IF k < Len(Directory) THEN Call("mkdir", k + 1, FALSE, "none")
                 ELSE Call("returned", k, e = "FileExistsError", "none")]
    /\ DirsUnchanged

NextDirs == \E p \in 1..MaxProcs : CheckExists(p) \/ CheckHead(p) \/ MakeDir(p)

SpecDirs == InitDirs /\ [][NextDirs]_vars

\* =================================================================== claims

\* ------------------------------------------------- reference notions
\* the vertices (0-based) of one face
FaceVertices(face) == {face[1], face[2], face[3]}

\* mesh adjacency: two vertices appear together in some face
Adjacent(fs, u, v) ==
    \E k \in 1..Len(fs) : u \in FaceVertices(fs[k]) /\ v \in FaceVertices(fs[k])

\* the vertices of S reachable from C through vertices of S
RECURSIVE Reach(_, _, _)
Reach(fs, S, C) ==
    LET D == C \cup {v \in S : \E u \in C : Adjacent(fs, u, v)}
    IN IF D = C THEN C ELSE Reach(fs, S, D)

RECURSIVE CountComponents(_, _)
CountComponents(fs, S) ==
    IF S = {} THEN 0
    ELSE LET r == CHOOSE v \in S : TRUE
         IN 1 + CountComponents(fs, S \ Reach(fs, S, {r}))

\* maximal connected components, under mesh adjacency, of the vertices labelled b
MeshComponents(fs, ldb, b) ==
    CountComponents(fs, {v \in 0..(Len(ldb) - 1) : ldb[v + 1] = b})

VertexPermutations(N) == {f \in [1..N -> 1..N] : \A i, j \in 1..N : f[i] = f[j] => i = j}

\* the vertices (1-based positions of the label array) that carry band b
CarriedBy(b) == {v \in 1..Len(loc_dom_band) : loc_dom_band[v] = b}

\* the faces (positions of the face list) with at least one vertex labelled b
TouchedFaces(b) ==
    {k \in 1..Len(faces) : \E j \in 1..3 : loc_dom_band[faces[k][j] + 1] = b}

RECURSIVE SumFaceAreas(_)
SumFaceAreas(K) ==
    IF K = {} THEN Zero
    ELSE LET k == CHOOSE x \in K : TRUE
         IN Add(TrimeshFaceArea(vertices, faces[k]), SumFaceAreas(K \ {k}))

RECURSIVE SumCounts(_)
SumCounts(I) ==
    IF I = {} THEN 0
    ELSE LET i == CHOOSE x \in I : TRUE
         IN coverage[i].num_vertices + SumCounts(I \ {i})

RECURSIVE SumPercentages(_)
SumPercentages(I) ==
    IF I = {} THEN Zero
    ELSE LET i == CHOOSE x \in I : TRUE
         IN Add(coverage[i].vertex_percentage, SumPercentages(I \ {i}))

RECURSIVE SumBandAreas(_)
SumBandAreas(I) ==
    IF I = {} THEN Zero
    ELSE LET i == CHOOSE x \in I : TRUE
         IN Add(coverage[i].total_area, SumBandAreas(I \ {i}))

Neg(x) == Mul(Flt(-1), x)

CoverageComplete == pc = "coverage" /\ Len(coverage) = Len(CoverageBands)

\* ---------------------------------------------------------------- C1
\* C1 (as claimed): the parcel count reported for every band b is the number
\* of maximal connected components, under mesh adjacency (two vertices share
\* a face), of the vertices labelled b.
C1_ParcelsAreMeshComponents ==
    pc = "done" /\ parcels_per_band # NoData =>
        \A b \in 0..(levels - 1) :
            parcels_per_band[b + 1] = MeshComponents(faces, loc_dom_band, b)

\* ---------------------------------------------------------------- C2
\* C2 (as claimed): the parcel counts are unchanged by every permutation of
\* the vertex indices applied consistently to the faces and the label array
\* (the faces are not an argument of the function, so only the permuted label
\* array reaches it).
C2_ParcelsPermutationInvariant ==
    pc = "done" /\ parcels_per_band # NoData =>
        \A f \in VertexPermutations(Len(loc_dom_band)) :
            calculate_parcels_per_band(
                [v \in 1..Len(loc_dom_band) |-> loc_dom_band[f[v]]], levels)
            = parcels_per_band

\* ---------------------------------------------------------------- C3
\* C3: the area returned for band b is the sum of the full triangle areas of
\* exactly the faces with at least one vertex labelled b.
C3_AreaOfTouchedFaces ==
    pc = "coverage" =>
        \A i \in 1..Len(coverage) :
            coverage[i].total_area = SumFaceAreas(TouchedFaces(coverage[i].band_idx))

\* C3 witness: all bands computed, one face carries two distinct labels and
\* the band areas together exceed the mesh area.
C3_Witness ==
    /\ CoverageComplete
    /\ \E k \in 1..Len(faces) :
         loc_dom_band[faces[k][1] + 1] # loc_dom_band[faces[k][2] + 1]
    /\ IsPositive(Add(SumBandAreas(1..Len(coverage)), Neg(MeshArea(vertices, faces))))

\* ---------------------------------------------------------------- C4
\* C4: for a label array of length N > 0 the vertex count for band b is the
\* number of vertices whose label equals b, the vertex percentage is that
\* count / N * 100, and (the mesh area being non-zero, so that the quotient
\* exists) area percentage * mesh area = 100 * band area.
C4_CountsAndPercentages ==
    pc = "coverage" /\ Len(loc_dom_band) > 0 =>
        LET mesh_area == MeshArea(vertices, faces)
        IN \A i \in 1..Len(coverage) :
               LET r == coverage[i]
                   carried == Cardinality(CarriedBy(r.band_idx))
               IN /\ r.num_vertices = carried
                  /\ r.vertex_percentage = Num(100 * carried, 0, Len(loc_dom_band))
                  /\ mesh_area # Zero =>
                         /\ IsFinite(r.area_percentage)
                         /\ Mul(r.area_percentage, mesh_area) = Mul(Flt(100), r.total_area)

\* C4 witness: a band carried by some but not all vertices, covering part of
\* a mesh of positive area.
C4_Witness ==
    /\ pc = "coverage"
    /\ \E i \in 1..Len(coverage) :
         /\ coverage[i].num_vertices > 0
         /\ coverage[i].num_vertices < Len(loc_dom_band)
         /\ IsPositive(coverage[i].total_area)
         /\ coverage[i].total_area # MeshArea(vertices, faces)

\* ---------------------------------------------------------------- C5
\* C5: over the label values that occur (0 and negative ones included) the
\* vertex counts sum to the number of vertices and the vertex percentages
\* sum to 100.
C5_VertexPercentagesSumTo100 ==
    CoverageComplete =>
        LET occurring == {i \in 1..Len(coverage) : CarriedBy(coverage[i].band_idx) # {}}
        IN /\ \A v \in 1..Len(loc_dom_band) :
                 \E i \in occurring : coverage[i].band_idx = loc_dom_band[v]
           /\ SumCounts(occurring) = Len(loc_dom_band)
           /\ SumPercentages(occurring) = Flt(100)

\* C5 witness: all bands computed for an array in which a negative label, 0
\* and a positive label all occur.
C5_Witness ==
    /\ CoverageComplete
    /\ CarriedBy(-1) # {}
    /\ CarriedBy(0) # {}
    /\ CarriedBy(1) # {}

\* ---------------------------------------------------------------- C6
\* C6 (as claimed): for a band that no vertex carries the parcel count is 0
\* and the coverage is vertex count 0, vertex percentage 0, area 0 and area
\* percentage 0.
C6_AbsentBandAllZero ==
    pc = "coverage" =>
        \A i \in 1..Len(coverage) :
            LET r == coverage[i]
            IN CarriedBy(r.band_idx) = {} =>
                /\ r.band_idx \in 0..(levels - 1) =>
                       calculate_parcels_per_band(loc_dom_band, levels)[r.band_idx + 1] = 0
                /\ r.num_vertices = 0
                /\ r.vertex_percentage = Zero
                /\ r.total_area = Zero
                /\ r.area_percentage = Zero

\* ---------------------------------------------------------------- C7
\* C7 (as claimed): when the total mesh area is zero the area percentage is
\* exactly 0 for every band, with no division by zero and no NaN or infinity.
C7_ZeroAreaGivesZeroPercentage ==
    pc = "coverage" /\ MeshArea(vertices, faces) = Zero =>
        /\ ~div_by_zero
        /\ \A i \in 1..Len(coverage) : coverage[i].area_percentage = Zero

\* ---------------------------------------------------------------- C8
\* C8 (as claimed): when every vertex carries band b the result for b is
\* vertex count N, vertex percentage 100, the total area of all faces and
\* area percentage 100.
C8_Original ==
    pc = "coverage" /\ Len(loc_dom_band) > 0 =>
        \A i \in 1..Len(coverage) :
            LET r == coverage[i]
            IN CarriedBy(r.band_idx) = 1..Len(loc_dom_band) =>
                /\ r.num_vertices = Len(loc_dom_band)
                /\ r.vertex_percentage = Flt(100)
                /\ r.total_area = MeshArea(vertices, faces)
                /\ r.area_percentage = Flt(100)

\* C8 (amended): when every vertex carries band b the result for b is vertex
\* count N, vertex percentage 100, the total area of all faces and, when that
\* total area is not zero, area percentage 100.
C8_AllVerticesInBand ==
    pc = "coverage" /\ Len(loc_dom_band) > 0 =>
        \A i \in 1..Len(coverage) :
            LET r == coverage[i]
            IN CarriedBy(r.band_idx) = 1..Len(loc_dom_band) =>
                /\ r.num_vertices = Len(loc_dom_band)
                /\ r.vertex_percentage = Flt(100)
                /\ r.total_area = MeshArea(vertices, faces)
                /\ MeshArea(vertices, faces) # Zero => r.area_percentage = Flt(100)

\* C8 witness: the single triangle whose three vertices are labelled 1, of
\* positive area, with band 1 computed.
C8_Witness ==
    /\ pc = "coverage"
    /\ loc_dom_band = <<1, 1, 1>>
    /\ faces = <<<<0, 1, 2>>>>
    /\ IsPositive(MeshArea(vertices, faces))
    /\ \E i \in 1..Len(coverage) :
         /\ coverage[i].band_idx = 1
         /\ coverage[i].num_vertices = 3
         /\ coverage[i].area_percentage = Flt(100)

\* ---------------------------------------------------------------- C9
\* the frequencies sqrt(eigenvalue / (2*pi)) of the indices of group i
GroupFrequencies(i) ==
    [k \in 1..Len(group_indices[i]) |->
        Sqrt(Num(eigVal[group_indices[i][k] + 1], 0, 2))]

MeanFrequencyIsZero(i) == SumSeq(GroupFrequencies(i)) = Zero

\* wavelength * (sum of the group's frequencies) = size of the group
IsInverseOfMeanFrequency(i) ==
    Mul(band_wavelengths[i], SumSeq(GroupFrequencies(i))) = Flt(Len(group_indices[i]))

Scenario ==
    /\ eigVal = <<0, 4, 16>>
    /\ group_indices = <<<<0>>, <<1>>, <<2>>>>

\* C9 (as claimed): for eigenvalues [0, 4*pi, 16*pi] and groups {0}, {1}, {2}
\* the result is [0, 1/sqrt(2), 1/sqrt(4)].
C9_OriginalScenario ==
    pc = "done" /\ Scenario =>
        band_wavelengths = <<Zero, Num(0, 1, 2), Num(1, 0, 2)>>

\* C9 (amended): one value per index group, in group order; for every
\* non-empty group with non-zero mean frequency the value is 1 / mean of
\* sqrt(eigenvalue / (2*pi)); for eigenvalues [0, 4*pi, 16*pi] and groups
\* {0}, {1}, {2} the result is [0, 1/sqrt(2), 1/sqrt(8)].
C9_WavelengthFormula ==
    pc \in {"wavelength", "done"} =>
        /\ Len(band_wavelengths) <= Len(group_indices)
        /\ pc = "done" => Len(band_wavelengths) = Len(group_indices)
        /\ \A i \in 1..Len(band_wavelengths) :
              Len(group_indices[i]) > 0 /\ ~MeanFrequencyIsZero(i) =>
                  IsInverseOfMeanFrequency(i)
        /\ pc = "done" /\ Scenario =>
              band_wavelengths = <<Zero, Num(0, 1, 2), Num(0, 1, 4)>>

\* C9 witness: the scenario has returned, and 1/sqrt(8) differs from 1/sqrt(4).
C9_Witness ==
    /\ pc = "done"
    /\ Scenario
    /\ band_wavelengths[3] = Num(0, 1, 4)
    /\ Mul(Mul(band_wavelengths[3], band_wavelengths[3]), Flt(8)) = Flt(1)

\* --------------------------------------------------------------- C10
\* C10: a band whose index group is empty, or whose mean frequency is 0, gets
\* wavelength 0, no division by zero is executed, and next to such bands the
\* other bands still get 1 / mean frequency.
C10_EmptyAndZeroBands ==
    pc \in {"wavelength", "done"} =>
        /\ ~div_by_zero
        /\ \A i \in 1..Len(band_wavelengths) :
              /\ IsFinite(band_wavelengths[i])
              /\ Len(group_indices[i]) = 0 => band_wavelengths[i] = Zero
              /\ Len(group_indices[i]) > 0 /\ MeanFrequencyIsZero(i) =>
                     band_wavelengths[i] = Zero
              /\ (\E j \in 1..Len(band_wavelengths) :
                     j # i /\ band_wavelengths[j] = Zero)
                 /\ Len(group_indices[i]) > 0 /\ ~MeanFrequencyIsZero(i) =>
                     /\ IsPositive(band_wavelengths[i])
                     /\ IsInverseOfMeanFrequency(i)

\* C10 witness: an empty group, a group of mean frequency 0 and a group of
\* positive mean frequency have all been processed.
C10_Witness ==
    /\ pc = "done"
    /\ \E i, j, k \in 1..Len(band_wavelengths) :
         /\ Len(group_indices[i]) = 0
         /\ Len(group_indices[j]) > 0 /\ MeanFrequencyIsZero(j)
         /\ band_wavelengths[i] = Zero /\ band_wavelengths[j] = Zero
         /\ IsPositive(band_wavelengths[k])

\* --------------------------------------------------------------- C11
\* C11: when the convex-hull area is less than or equal to 0,
\* get_gyrification_index raises an error and returns no value (no infinity,
\* no NaN, no zero or negative ratio).  A hull area is a sum of triangle
\* areas, so "less than or equal to 0" is "equal to 0".
C11_NonPositiveHullRaises ==
    (pc = "done" /\ gyrification # NoData /\ hull.exc = "none"
        /\ ~IsPositive(hull.value))
    => (gyrification.exc # "none" /\ gyrification.value = <<>>)

C11_Witness ==
    /\ pc = "done" /\ gyrification # NoData
    /\ hull = Returns(Zero)
    /\ MeshArea(vertices, faces) = Zero
    /\ Len(faces) = 2
    /\ gyrification = Raises("ZeroDivisionError")

\* --------------------------------------------------------------- C12
\* C12: for a hull area greater than 0, get_gyrification_index returns the
\* pair (mesh area / hull area, hull area); the second component is the very
\* hull area that divided the mesh area.
C12_ReturnsRatioAndHullArea ==
    (pc = "done" /\ gyrification # NoData /\ hull.exc = "none"
        /\ IsPositive(hull.value))
    => /\ gyrification.exc = "none"
       /\ Len(gyrification.value) = 2
       /\ gyrification.value[2] = hull.value
       /\ gyrification.value[1] = Div(MeshArea(vertices, faces), hull.value)
       /\ Mul(gyrification.value[1], gyrification.value[2]) = MeshArea(vertices, faces)

C12_Witness ==
    /\ pc = "done" /\ gyrification # NoData
    /\ hull = Returns(Flt(2))
    /\ MeshArea(vertices, faces) = Flt(1)
    /\ gyrification = Returns(<<Half, Flt(2)>>)

\* --------------------------------------------------------------- C19
\* the bands that have an entry in the list calculate_parcels_per_band
\* returns: position k (1-based) holds the count of band k - 1
CountedBands == {k - 1 : k \in DOMAIN parcels_per_band}

\* C19 (as claimed): label 0 means "no dominant band" and is not counted as a
\* band; every non-zero label that occurs, negative or positive, has its own
\* parcel count (the number of its runs, at least 1), and -k and +k are
\* counted separately.
C19_NonZeroLabelsCounted ==
    pc = "done" /\ parcels_per_band # NoData =>
        /\ 0 \notin CountedBands
        /\ \A v \in DOMAIN loc_dom_band :
              loc_dom_band[v] # 0 =>
                  /\ loc_dom_band[v] \in CountedBands
                  /\ parcels_per_band[loc_dom_band[v] + 1] >= 1

\* ------------------------------------- reference notions for a run of main
\* the files this run of main is to process, in order
Run == FilesOfRun(all_files, environ)

\* the mesh file the i-th file of the run stands for
MeshOf(i) == StripSmoothPrefix(Run[i])

\* the i-th file of the run names a mesh that was opened
HasContent(i) == MeshOf(i) \in DOMAIN disk

\* the positions of the run, among the first n, that gave a record
Succeeded(n) == {i \in 1..n : returned[i].value # None}

\* the k-th element of a set of positions, in ascending order
Nth(S, k) == CHOOSE i \in S : Cardinality({j \in S : j < i}) = k - 1

\* the i-th file of the run failed with an exception caught in
\* process_single_file
FailedOn(i, e) ==
    /\ returned[i].value = None
    /\ Len(returned[i].printed) = 1
    /\ returned[i].printed[1].text = "Error processing"
    /\ returned[i].printed[1].detail = e

\* --------------------------------------------------------------- C14
\* C14: a failure while one file is processed (an exception, a missing
\* gestational age, a missing mesh file) never aborts the run of main: every
\* file of the run is processed, and the records kept are those of the files
\* that succeed, each what process_single_file gives for that file on its
\* own, as if the failing files were not in the list.
C14_FailureNeverAbortsBatch ==
    pc \in {"main", "done", "exit1"} =>
        /\ pc # "exit1"
        /\ Len(results) = Cardinality(Succeeded(Len(returned)))
        /\ \A k \in 1..Len(results) :
               results[k] = returned[Nth(Succeeded(Len(returned)), k)].value
        /\ pc = "done" =>
              /\ Len(returned) = Len(Run)
              /\ LET failing == {Run[i] : i \in {j \in DOMAIN returned :
                                                    returned[j].value = None}}
                     kept == SelectSeq(Run, LAMBDA f : f \notin failing)
                 IN results = [k \in 1..Len(kept) |->
                                  process_single_file(kept[k], Present(all_files) \ failing,
                                                      MeshInfo, disk).value]

C14_Witness ==
    /\ pc = "done"
    /\ Len(Run) = 3
    /\ returned[1].value # None
    /\ FailedOn(2, "ZeroDivisionError")
    /\ returned[3].value # None
    /\ Len(results) = 2
    /\ csv.written

\* --------------------------------------------------------------- C15
\* C15: the table main writes has exactly one row for each mesh processed
\* successfully, in processing order, each row holding that mesh's record,
\* and no row for a mesh that was missing or failed; when no mesh succeeds
\* no table is written.
C15_OneRowPerSuccess ==
    pc \in {"main", "done"} =>
        /\ \A k \in 1..Len(results) : results[k] # None
        /\ Len(results) = Cardinality(Succeeded(Len(returned)))
        /\ pc = "done" =>
              /\ csv.written <=> Succeeded(Len(returned)) # {}
              /\ Len(csv.rows) = Cardinality(Succeeded(Len(returned)))
              /\ \A k \in 1..Len(csv.rows) :
                     LET record == returned[Nth(Succeeded(Len(returned)), k)].value
                     IN \A key \in DOMAIN record : csv.rows[k][key] = record[key]

C15_Witness ==
    /\ pc = "done"
    /\ Len(Run) = 3
    /\ returned[1].value = None
    /\ returned[2].value # None
    /\ returned[3].value # None
    /\ csv.written
    /\ Len(csv.rows) = 2
    /\ csv.rows[1][Key("participant_session")] = <<"sub-01", "ses-01", "right">>
    /\ csv.rows[2][Key("participant_session")] = <<"sub-01", "ses-01", "left">>

\* no table when every file fails
C15_WitnessNoTable ==
    /\ pc = "done"
    /\ Len(Run) = 2
    /\ Succeeded(2) = {}
    /\ ~csv.written

\* --------------------------------------------------------------- C16
\* the label array is not as long as the vertex array, or a face names a
\* vertex the mesh has not
ContractViolated(c) ==
    \/ FaceOutOfRange(c.vertices, c.faces)
    \/ c.dominance.exc = "none" /\ Len(c.dominance.value) # Len(c.vertices)

\* C16 (as claimed): an input-contract violation (label array shorter or
\* longer than the vertex array, face index out of range) is fatal for that
\* mesh: process_single_file returns no record for it and reports the failure
\* with the file's identity.
C16_ContractViolationIsFatal ==
    pc \in {"main", "done"} =>
        \A i \in DOMAIN returned :
            (HasContent(i) /\ ContractViolated(disk[MeshOf(i)])) =>
                /\ returned[i].value = None
                /\ \E m \in DOMAIN returned[i].printed :
                       returned[i].printed[m].about = MeshOf(i)

\* --------------------------------------------------------------- C17
\* zero total surface area, zero hull area, or a summary band no vertex
\* carries, with every upstream result available and the input contract kept
Degenerate(c) ==
    /\ c.spectrum.exc = "none" /\ c.dominance.exc = "none" /\ c.hull.exc = "none"
    /\ ~ContractViolated(c)
    /\ \/ MeshArea(c.vertices, c.faces) = Zero
       \/ c.hull.value = Zero
       \/ \E b \in {4, 5, 6} : \A v \in DOMAIN c.dominance.value : c.dominance.value[v] # b

\* C17 (as claimed): a degenerate-geometry condition is never fatal:
\* process_single_file still returns a record, the quantities of the bands
\* and the gyrification index hold finite values (0 where the condition
\* strikes), and no division-by-zero error is raised.
C17_DegenerateIsNotFatal ==
    pc \in {"main", "done"} =>
        \A i \in DOMAIN returned :
            (HasContent(i) /\ Degenerate(disk[MeshOf(i)])) =>
                /\ returned[i].value # None
                /\ \A m \in DOMAIN returned[i].printed :
                       returned[i].printed[m].detail # "ZeroDivisionError"

\* --------------------------------------------------------------- C18
\* no dominance map or no decomposition
UpstreamUnavailable(c) == c.spectrum.exc # "none" \/ c.dominance.exc # "none"

\* C18 (as claimed): when an upstream result is unavailable, what
\* process_single_file gives its caller differs from what it gives for a
\* degenerate-geometry condition and for any other failure.
C18_UpstreamFailureIsTyped ==
    pc \in {"main", "done"} =>
        \A i, j \in DOMAIN returned :
            (/\ HasContent(i) /\ UpstreamUnavailable(disk[MeshOf(i)])
             /\ ~(HasContent(j) /\ UpstreamUnavailable(disk[MeshOf(j)])))
            => returned[i].value # returned[j].value

\* --------------------------------------------------------------- C20
\* the number of vertices that carry band b
VerticesOfBand(ldb, b) == Cardinality({v \in DOMAIN ldb : ldb[v] = b})

\* C20 (as claimed): in the record process_single_file returns, each of the
\* bands B4, B5, B6 has its own vertex count, vertex percentage, surface area
\* and area percentage under a key named for that band, and the value under
\* a band's key is the value computed for that band.
C20_BandValuesUnderOwnKeys ==
    pc \in {"main", "done"} =>
        \A i \in DOMAIN returned :
            returned[i].value # None =>
                LET record == returned[i].value
                    c == disk[MeshOf(i)]
                    ldb == c.dominance.value
                IN \A b \in {4, 5, 6} :
                       LET own == BandCoverageOrZeros(c.vertices, c.faces, ldb, b,
                                                      MaxOf(ldb)).value
                       IN /\ {BandKey("B_number_of_vertices", b),
                              BandKey("B_vertex_percentage", b),
                              BandKey("B_surface_area", b),
                              BandKey("B_surface_area_percentage", b)} \subseteq DOMAIN record
                          /\ record[BandKey("B_number_of_vertices", b)] = VerticesOfBand(ldb, b)
                          /\ record[BandKey("B_vertex_percentage", b)] = own.vertex_percentage
                          /\ record[BandKey("B_surface_area", b)] = own.total_area
                          /\ record[BandKey("B_surface_area_percentage", b)] = own.area_percentage

\* --------------------------------------------------------------- C21
\* C21 (as claimed): within one run, every record process_single_file
\* returns has the same set of field names, whatever the mesh and whatever
\* the number of bands of its decomposition.
C21_SameFieldNames ==
    \A i, j \in DOMAIN returned :
        (returned[i].value # None /\ returned[j].value # None) =>
            DOMAIN returned[i].value = DOMAIN returned[j].value

\* --------------------------------------------------------------- C22
\* the power ratios of a record: the per-band percentages and the relative
\* powers of B4, B5 and B6
PowerRatioKeys(record) ==
    {k \in DOMAIN record : k[1] \in {"band_power_pct_B", "B_band_relative_power"}}

\* C22 (as claimed): for a spectrum of total power zero every power ratio
\* of the record, the per-band percentages and the relative powers of B4,
\* B5 and B6, is the finite value 0: no NaN and no infinity.
C22_ZeroPowerRatiosAreZero ==
    \A i \in DOMAIN returned :
        (/\ returned[i].value # None
         /\ SumSeq(disk[MeshOf(i)].spectrum.value.grouped_spectrum) = Zero) =>
            \A k \in PowerRatioKeys(returned[i].value) :
                /\ IsFinite(returned[i].value[k])
                /\ returned[i].value[k] = Zero

\* --------------------------------------------------------------- C24
\* the indices of the range [start_idx, end_idx) of a task that has run
IndexRange(t) == chunks[t].start_idx..(chunks[t].end_idx - 1)

\* the tasks among those that have run that take the file at index i
TakenBy(i) ==
    {t \in DOMAIN chunks : \E k \in DOMAIN chunks[t].files : chunks[t].files[k] = all_files[i + 1]}

\* C24: in SLURM array mode the ranges [start_idx, end_idx) of the tasks
\* 0 .. n - 1 are pairwise disjoint, each task takes exactly the files at
\* the indices of its range, a task whose start index is past the end takes
\* none, and once every task has run the ranges cover [0, F): every listed
\* file is taken by exactly one task.
C24_ChunksPartitionListing ==
    pc = "array" =>
        LET n_files == Len(all_files)
        IN /\ \A t, u \in DOMAIN chunks : t # u => IndexRange(t) \cap IndexRange(u) = {}
           /\ \A t \in DOMAIN chunks :
                  /\ IndexRange(t) \subseteq 0..(n_files - 1)
                  /\ Len(chunks[t].files) = Cardinality(IndexRange(t))
                  /\ \A k \in DOMAIN chunks[t].files :
                         chunks[t].files[k] = all_files[chunks[t].start_idx + k]
                  /\ chunks[t].start_idx >= n_files => chunks[t].files = <<>>
           /\ \A i \in 0..(n_files - 1) : Cardinality(TakenBy(i)) <= 1
           /\ DOMAIN chunks = DOMAIN environ =>
                  /\ UNION {IndexRange(t) : t \in DOMAIN chunks} = 0..(n_files - 1)
                  /\ \A i \in 0..(n_files - 1) : Cardinality(TakenBy(i)) = 1

\* every task of an array of four has run over five files, and the last
\* task's start index is past the end of the listing
C24_Witness ==
    /\ pc = "array"
    /\ Len(all_files) = 5
    /\ DOMAIN chunks = 0..3
    /\ DOMAIN chunks = DOMAIN environ
    /\ chunks[3].start_idx > Len(all_files)
    /\ chunks[3].files = <<>>
    /\ chunks[2].files = <<all_files[5]>>

\* --------------------------------------------------------------- C25
\* C25: when several processes call ensure_dir_exists on the same path
\* concurrently, under every interleaving of their existence tests and
\* creations no call fails with an error, and the directory exists once a
\* call has returned.
C25_NoCallFailsAndDirectoryExists ==
    pc = "dirs" =>
        \A p \in DOMAIN calls :
            /\ calls[p].at # "failed"
            /\ calls[p].error = "none"
            /\ calls[p].at = "returned" => Directory \in dirs

\* a process found the directory missing, another process made it in
\* between, and the first one's own creation met the existing directory
\* and returned
C25_Witness ==
    /\ pc = "dirs"
    /\ \E p \in DOMAIN calls : calls[p].at = "returned" /\ calls[p].raced
    /\ \A p \in DOMAIN calls : calls[p].at = "returned"
    /\ Directory \in dirs

\* --------------------------------------------------------------- C26
\* a listed name without the smooth_5_ it starts with
Unsmoothed(fn) ==
    IF Len(fn) >= 3 /\ fn[1] = "smooth" /\ fn[2] = "5" THEN SubSeq(fn, 3, Len(fn)) ELSE fn

\* mesh_info has a row for the participant and session a name starts with
AgeKnown(fn) ==
    /\ Len(fn) >= 2
    /\ \E r \in DOMAIN MeshInfo :
           <<MeshInfo[r].subject_id, MeshInfo[r].session_id>> = <<fn[1], fn[2]>>

\* the steps of an outcome that create a directory or write a file
OutputSteps(o) ==
    {k \in DOMAIN o.steps : o.steps[k].op \in {"makedirs", "savefig", "write_texture", "save"}}

\* C26: process_single_file removes 'smooth_5_' from the listed name before
\* it builds the mesh path: the mesh it loads is the one at surface_path
\* joined with the stripped name, not the listed one. When no file exists at
\* that path or no gestational age matches the participant and session, it
\* returns None before it loads or computes anything and before it creates
\* any directory or writes any file.
C26_StrippedNameAndEarlyReturn ==
    pc \in {"main", "done"} =>
        \A i \in DOMAIN returned :
            LET o == returned[i]
                name == Unsmoothed(Run[i])
                loads == {k \in DOMAIN o.steps : o.steps[k].op = "load_mesh"}
            IN IF name \in Present(all_files) /\ AgeKnown(name)
               THEN /\ loads = {1}
                    /\ o.steps[1] = Step("load_mesh", "surface_path", name)
               ELSE /\ o.exc = "none"
                    /\ o.value = None
                    /\ o.steps = <<>>
                    /\ loads = {}
                    /\ OutputSteps(o) = {}

\* a smoothed copy was listed and the mesh loaded for it is the one without
\* the prefix, not the listed one
C26_Witness ==
    /\ pc = "done"
    /\ \E i \in DOMAIN returned :
           /\ Run[i] = SmoothedFile
           /\ returned[i].steps # <<>>
           /\ returned[i].steps[1] = Step("load_mesh", "surface_path", LeftFile)
           /\ OutputSteps(returned[i]) # {}

\* a smoothed copy was listed whose stripped name is no file, and a file of
\* a participant without gestational age: None for both and nothing done
C26_WitnessEarlyReturn ==
    /\ pc = "done"
    /\ \E i, j \in DOMAIN returned :
           /\ Run[i] = SmoothedFile
           /\ LeftFile \notin Present(all_files)
           /\ returned[i].value = None
           /\ returned[i].steps = <<>>
           /\ Run[j] = UnknownFile
           /\ returned[j].value = None
           /\ returned[j].steps = <<>>

====
